---- MODULE Spec2Model ----
(***************************************************************************)
(* Model of lib/classes/many_to_many.py: the classes Customer, Restaurant  *)
(* and Review, their class-level registries (the "all" lists), their       *)
(* property setters and their query methods.                               *)
(*                                                                         *)
(* Python values are records [type, val]: type is the Python type and val  *)
(* a sequence of integers (the characters of a str, the one number of an   *)
(* int, the registry index of a Customer or Restaurant object, nothing for *)
(* None).  An attribute that was never assigned holds Unset.               *)
(* An object is identified by its index in its class's registry: every     *)
(* Customer and Restaurant that exists was appended to it by __init__.     *)
(***************************************************************************)
EXTENDS Integers, Sequences, FiniteSets

VARIABLES Customer_all, Restaurant_all, Review_all, last

vars == <<Customer_all, Restaurant_all, Review_all, last>>

-----------------------------------------------------------------------------
(* Bounds of the model and constants of the program *)

MaxCustomers == 2
MaxRestaurants == 2
MaxReviews == 3

MinNameLen == 1
MaxNameLen == 25
MinRating == 1
MaxRating == 5
NegativeRating == 2

-----------------------------------------------------------------------------
(* Python values *)

PyStr(s) == [type |-> "str", val |-> s]
PyInt(n) == [type |-> "int", val |-> <<n>>]
PyNone == [type |-> "NoneType", val |-> <<>>]
CustomerObj(i) == [type |-> "Customer", val |-> <<i>>]
RestaurantObj(i) == [type |-> "Restaurant", val |-> <<i>>]
Unset == [type |-> "unset", val |-> <<>>]

Chars(n, ch) == [i \in 1..n |-> ch]

isinstance(value, cls) == value.type = cls

(* The inputs tried for a name: a string shorter than the least length, a *)
(* string of a valid length, a string longer than the greatest length and  *)
(* a value that is no string.  The valid first name has the least length   *)
(* and the valid last name and restaurant name the greatest, so that the   *)
(* two names of a Customer differ.                                         *)
FirstNameInputs ==
    { PyStr(Chars(MinNameLen - 1, 1)), PyStr(Chars(MinNameLen, 1)),
      PyStr(Chars(MaxNameLen + 1, 1)), PyInt(7) }
LastNameInputs ==
    { PyStr(Chars(MinNameLen - 1, 2)), PyStr(Chars(MaxNameLen, 2)),
      PyStr(Chars(MaxNameLen + 1, 2)), PyNone }
NameInputs ==
    { PyStr(Chars(MinNameLen - 1, 3)), PyStr(Chars(MaxNameLen, 3)),
      PyStr(Chars(MaxNameLen + 1, 3)), PyNone }

(* The inputs tried for a rating: just below, at both ends of and just     *)
(* above the range, and a value that is no int.                            *)
RatingInputs ==
    { PyInt(MinRating - 1), PyInt(MinRating), PyInt(MaxRating),
      PyInt(MaxRating + 1), PyNone }

(* The inputs tried for a customer and for a restaurant: every object of   *)
(* the class that exists, and a value of another type.                     *)
CustomerInputs == { CustomerObj(i) : i \in 1..Len(Customer_all) } \cup { PyNone }
RestaurantInputs ==
    { RestaurantObj(i) : i \in 1..Len(Restaurant_all) } \cup { PyNone }

-----------------------------------------------------------------------------
(* Property setters.  Each gives the object after the assignment and       *)
(* whether the assignment raised.                                          *)

Customer_first_name_set(self, value) ==
    IF isinstance(value, "str") /\ MinNameLen <= Len(value.val)
                                /\ Len(value.val) <= MaxNameLen
    THEN [self |-> [self EXCEPT !.first_name = value], raised |-> FALSE]
    ELSE [self |-> self, raised |-> FALSE]

(* Mutation: the greatest length is excluded *)
Customer_last_name_set_Mutant(self, value) ==
    IF isinstance(value, "str") /\ MinNameLen <= Len(value.val)
                                /\ Len(value.val) < MaxNameLen
    THEN [self |-> [self EXCEPT !.last_name = value], raised |-> FALSE]
    ELSE [self |-> self, raised |-> FALSE]

Customer_last_name_set(self, value) ==
    IF isinstance(value, "str") /\ MinNameLen <= Len(value.val)
                                /\ Len(value.val) <= MaxNameLen
    THEN [self |-> [self EXCEPT !.last_name = value], raised |-> FALSE]
    ELSE [self |-> self, raised |-> FALSE]

Restaurant_name_set(self, value) ==
    IF isinstance(value, "str") /\ MinNameLen <= Len(value.val)
                                /\ Len(value.val) <= MaxNameLen
    THEN [self |-> [self EXCEPT !.name = value], raised |-> FALSE]
    ELSE [self |-> self, raised |-> FALSE]

(* Mutation: no test that the rating was never assigned *)
Review_rating_set_Mutant(self, val) ==
    IF /\ isinstance(val, "int")
       /\ MinRating <= val.val[1] /\ val.val[1] <= MaxRating
    THEN [self |-> [self EXCEPT !.rating = val], raised |-> FALSE]
    ELSE [self |-> self, raised |-> FALSE]

Review_rating_set(self, val) ==
    IF /\ isinstance(val, "int")
       /\ MinRating <= val.val[1] /\ val.val[1] <= MaxRating
       /\ self.rating = Unset
    THEN [self |-> [self EXCEPT !.rating = val], raised |-> FALSE]
    ELSE [self |-> self, raised |-> FALSE]

Review_customer_set(self, val) ==
    IF isinstance(val, "Customer")
    THEN [self |-> [self EXCEPT !.customer = val], raised |-> FALSE]
    ELSE [self |-> self, raised |-> FALSE]

(* Mutation: a restaurant setter written like the customer setter *)
Review_restaurant_set_Mutant(self, val) ==
    IF isinstance(val, "Restaurant")
    THEN [self |-> [self EXCEPT !.restaurant = val], raised |-> FALSE]
    ELSE [self |-> self, raised |-> FALSE]

(* The restaurant property has a getter and no setter: every assignment    *)
(* to it raises AttributeError and assigns nothing.                        *)
Review_restaurant_set(self, val) ==
    [self |-> self, raised |-> TRUE]

(* One setter invocation, as recorded in last.calls *)
Call(attr, val, res) == [attr |-> attr, val |-> val, raised |-> res.raised]

-----------------------------------------------------------------------------
(* The objects before __init__ assigned anything *)

NewCustomer == [first_name |-> Unset, last_name |-> Unset]
NewRestaurant == [name |-> Unset]
NewReview == [customer |-> Unset, restaurant |-> Unset, rating |-> Unset]

Init ==
    /\ Customer_all = <<>>
    /\ Restaurant_all = <<>>
    /\ Review_all = <<>>
    /\ last = [op |-> "none", args |-> <<>>, calls |-> <<>>,
               raised |-> FALSE, ret |-> <<>>]

-----------------------------------------------------------------------------
(* Constructors *)

Customer__init__(first_name, last_name) ==
    LET s1 == Customer_first_name_set(NewCustomer, first_name)
        s2 == Customer_last_name_set(s1.self, last_name)
    IN  /\ Len(Customer_all) < MaxCustomers
        /\ Customer_all' = Append(Customer_all, s2.self)
        /\ last' = [op |-> "Customer.__init__",
                    args |-> <<first_name, last_name>>,
                    calls |-> << Call("Customer.first_name", first_name, s1),
                                 Call("Customer.last_name", last_name, s2) >>,
                    raised |-> FALSE, ret |-> <<>>]
        /\ UNCHANGED <<Restaurant_all, Review_all>>

Restaurant__init__(name) ==
    LET s1 == Restaurant_name_set(NewRestaurant, name)
    IN  /\ Len(Restaurant_all) < MaxRestaurants
        /\ Restaurant_all' = Append(Restaurant_all, s1.self)
        /\ last' = [op |-> "Restaurant.__init__",
                    args |-> <<name>>,
                    calls |-> << Call("Restaurant.name", name, s1) >>,
                    raised |-> FALSE, ret |-> <<>>]
        /\ UNCHANGED <<Customer_all, Review_all>>

(* Review.__init__ assigns customer, restaurant and rating in this order   *)
(* and appends self last: an assignment that raises ends it there.         *)
Review__init__(customer, restaurant, rating) ==
    LET s1 == Review_customer_set(NewReview, customer)
        s2 == Review_restaurant_set(s1.self, restaurant)
        s3 == Review_rating_set(s2.self, rating)
        c1 == << Call("Review.customer", customer, s1) >>
        c2 == Append(c1, Call("Review.restaurant", restaurant, s2))
        c3 == Append(c2, Call("Review.rating", rating, s3))
        calls == IF s1.raised THEN c1 ELSE IF s2.raised THEN c2 ELSE c3
        raised == s1.raised \/ s2.raised \/ s3.raised
    IN  /\ Len(Review_all) < MaxReviews
        /\ Review_all' = IF raised THEN Review_all
                                   ELSE Append(Review_all, s3.self)
        /\ last' = [op |-> "Review.__init__",
                    args |-> <<customer, restaurant, rating>>,
                    calls |-> calls, raised |-> raised, ret |-> <<>>]
        /\ UNCHANGED <<Customer_all, Restaurant_all>>

-----------------------------------------------------------------------------
(* Assignments to the properties of an object that exists *)

SetFirstName(i, value) ==
    LET s1 == Customer_first_name_set(Customer_all[i], value)
    IN  /\ Customer_all' = [Customer_all EXCEPT ![i] = s1.self]
        /\ last' = [op |-> "Customer.first_name", args |-> <<CustomerObj(i), value>>,
                    calls |-> << Call("Customer.first_name", value, s1) >>,
                    raised |-> s1.raised, ret |-> <<>>]
        /\ UNCHANGED <<Restaurant_all, Review_all>>

SetLastName(i, value) ==
    LET s1 == Customer_last_name_set(Customer_all[i], value)
    IN  /\ Customer_all' = [Customer_all EXCEPT ![i] = s1.self]
        /\ last' = [op |-> "Customer.last_name", args |-> <<CustomerObj(i), value>>,
                    calls |-> << Call("Customer.last_name", value, s1) >>,
                    raised |-> s1.raised, ret |-> <<>>]
        /\ UNCHANGED <<Restaurant_all, Review_all>>

SetName(i, value) ==
    LET s1 == Restaurant_name_set(Restaurant_all[i], value)
    IN  /\ Restaurant_all' = [Restaurant_all EXCEPT ![i] = s1.self]
        /\ last' = [op |-> "Restaurant.name", args |-> <<RestaurantObj(i), value>>,
                    calls |-> << Call("Restaurant.name", value, s1) >>,
                    raised |-> s1.raised, ret |-> <<>>]
        /\ UNCHANGED <<Customer_all, Review_all>>

-----------------------------------------------------------------------------
(* Queries.  A float with one decimal is given in tenths: 4.0 is 40.       *)

ToSet(seq) == { seq[i] : i \in 1..Len(seq) }

(* list(set(...)): each element once, in an order the hashes decide *)
ListsOfSet(S) ==
    { l \in [1..Cardinality(S) -> S] : { l[i] : i \in 1..Cardinality(S) } = S }

RECURSIVE sum(_)
sum(seq) == IF seq = <<>> THEN 0 ELSE Head(seq) + sum(Tail(seq))

(* Mutation: the quotient is cut off after the first decimal *)
round1_Mutant(num, den) == (10 * num) \div den

(* round(num / den, 1) in tenths: the nearest tenth, and the even one when *)
(* num / den lies exactly between two tenths (the quotients of the model   *)
(* that do are multiples of a quarter, which a float holds exactly).       *)
round1(num, den) ==
    LET q == (10 * num) \div den
        r == (10 * num) % den
    IN  IF 2 * r < den THEN q
        ELSE IF 2 * r > den THEN q + 1
        ELSE IF q % 2 = 0 THEN q ELSE q + 1

(* Mutation: the Reviews of every Customer *)
Customer_reviews_Mutant(self) == Review_all

Customer_reviews(self) ==
    SelectSeq(Review_all, LAMBDA review : review.customer = self)

(* Mutation: the list is not passed through set() *)
Customer_restaurants_Mutant(self) ==
    LET reviews == Customer_reviews(self)
    IN  { [i \in 1..Len(reviews) |-> reviews[i].restaurant] }

Customer_restaurants(self) ==
    LET reviews == Customer_reviews(self)
    IN  ListsOfSet(ToSet([i \in 1..Len(reviews) |-> reviews[i].restaurant]))

Customer_num_negative_reviews(self) ==
    Len(SelectSeq(Customer_reviews(self),
                  LAMBDA review : review.rating.val[1] <= NegativeRating))

Customer_has_reviewed_restaurant(self, restaurant) ==
    LET reviews == Customer_reviews(self)
    IN  \E i \in 1..Len(reviews) : reviews[i].restaurant = restaurant

Restaurant_reviews(self) ==
    SelectSeq(Review_all, LAMBDA review : review.restaurant = self)

Restaurant_customers(self) ==
    LET reviews == Restaurant_reviews(self)
    IN  ListsOfSet(ToSet([i \in 1..Len(reviews) |-> reviews[i].customer]))

Restaurant_average_star_rating(self) ==
    LET reviews == Restaurant_reviews(self)
        ratings == [i \in 1..Len(reviews) |-> reviews[i].rating.val[1]]
    IN  IF ratings = <<>> THEN 0
        ELSE round1(sum(ratings), Len(ratings))

(* Mutation: equal keys come out in reverse list order, as they do from    *)
(* sorted(...)[::-1]                                                       *)
RECURSIVE insert_desc_Mutant(_, _)
insert_desc_Mutant(sorted, x) ==
    IF sorted = <<>> THEN <<x>>
    ELSE IF Restaurant_average_star_rating(Head(sorted))
              > Restaurant_average_star_rating(x)
         THEN <<Head(sorted)>> \o insert_desc_Mutant(Tail(sorted), x)
         ELSE <<x>> \o sorted

(* sorted(..., reverse=True) is stable: of two elements with equal keys    *)
(* the one that came first in the list stays first.  Inserting the         *)
(* elements in list order, each goes behind every element whose key is     *)
(* greater or equal.                                                       *)
RECURSIVE insert_desc(_, _)
insert_desc(sorted, x) ==
    IF sorted = <<>> THEN <<x>>
    ELSE IF Restaurant_average_star_rating(Head(sorted))
              >= Restaurant_average_star_rating(x)
         THEN <<Head(sorted)>> \o insert_desc(Tail(sorted), x)
         ELSE <<x>> \o sorted

RECURSIVE sorted_desc(_)
sorted_desc(seq) ==
    IF seq = <<>> THEN <<>>
    ELSE insert_desc(sorted_desc(SubSeq(seq, 1, Len(seq) - 1)), seq[Len(seq)])

Restaurant_top_two_restaurants ==
    LET sorted_restaurants ==
            sorted_desc([i \in 1..Len(Restaurant_all) |-> RestaurantObj(i)])
    IN  SubSeq(sorted_restaurants, 1,
               IF Len(sorted_restaurants) < 2 THEN Len(sorted_restaurants) ELSE 2)

Query(op, args, ret) ==
    /\ last' = [op |-> op, args |-> args, calls |-> <<>>,
                raised |-> FALSE, ret |-> ret]
    /\ UNCHANGED <<Customer_all, Restaurant_all, Review_all>>

CallRestaurants(c) ==
    \E l \in Customer_restaurants(c) : Query("Customer.restaurants", <<c>>, l)

CallNumNegativeReviews(c) ==
    Query("Customer.num_negative_reviews", <<c>>,
          <<Customer_num_negative_reviews(c)>>)

CallHasReviewedRestaurant(c, r) ==
    Query("Customer.has_reviewed_restaurant", <<c, r>>,
          <<Customer_has_reviewed_restaurant(c, r)>>)

CallCustomers(r) ==
    \E l \in Restaurant_customers(r) : Query("Restaurant.customers", <<r>>, l)

CallAverageStarRating(r) ==
    Query("Restaurant.average_star_rating", <<r>>,
          <<Restaurant_average_star_rating(r)>>)

CallTopTwoRestaurants ==
    Query("Restaurant.top_two_restaurants", <<>>, Restaurant_top_two_restaurants)

-----------------------------------------------------------------------------
(* Assignments to the properties of a Review of the registry *)

SetRating(i, val) ==
    LET s1 == Review_rating_set(Review_all[i], val)
    IN  /\ Review_all' = [Review_all EXCEPT ![i] = s1.self]
        /\ last' = [op |-> "Review.rating", args |-> <<PyInt(i), val>>,
                    calls |-> << Call("Review.rating", val, s1) >>,
                    raised |-> s1.raised, ret |-> <<>>]
        /\ UNCHANGED <<Customer_all, Restaurant_all>>

SetCustomer(i, val) ==
    LET s1 == Review_customer_set(Review_all[i], val)
    IN  /\ Review_all' = [Review_all EXCEPT ![i] = s1.self]
        /\ last' = [op |-> "Review.customer", args |-> <<PyInt(i), val>>,
                    calls |-> << Call("Review.customer", val, s1) >>,
                    raised |-> s1.raised, ret |-> <<>>]
        /\ UNCHANGED <<Customer_all, Restaurant_all>>

SetRestaurant(i, val) ==
    LET s1 == Review_restaurant_set(Review_all[i], val)
    IN  /\ Review_all' = [Review_all EXCEPT ![i] = s1.self]
        /\ last' = [op |-> "Review.restaurant", args |-> <<PyInt(i), val>>,
                    calls |-> << Call("Review.restaurant", val, s1) >>,
                    raised |-> s1.raised, ret |-> <<>>]
        /\ UNCHANGED <<Customer_all, Restaurant_all>>

-----------------------------------------------------------------------------
(* The specification of the constructors and of the name setters, from the *)
(* empty registries of a fresh process.                                    *)

Next ==
    \/ \E fn \in FirstNameInputs, ln \in LastNameInputs : Customer__init__(fn, ln)
    \/ \E n \in NameInputs : Restaurant__init__(n)
    \/ \E c \in CustomerInputs, r \in RestaurantInputs, rt \in RatingInputs :
          Review__init__(c, r, rt)
    \/ \E i \in 1..Len(Customer_all), v \in FirstNameInputs : SetFirstName(i, v)
    \/ \E i \in 1..Len(Customer_all), v \in LastNameInputs : SetLastName(i, v)
    \/ \E i \in 1..Len(Restaurant_all), v \in NameInputs : SetName(i, v)

Spec == Init /\ [][Next]_vars

-----------------------------------------------------------------------------
(* The specifications of the queries and of the Review setters.  The       *)
(* registries are inputs: two Customers and three Restaurants as their     *)
(* constructors leave them, and a Review registry of up to MaxReviews      *)
(* Reviews with all three attributes assigned.  No run of Spec fills the   *)
(* Review registry (Review.__init__ raises before it appends), so the      *)
(* registry is drawn here the way code that appends to Review.all itself   *)
(* would have left it.                                                     *)

QueryCustomers ==
    << [first_name |-> PyStr(Chars(MinNameLen, 1)),
        last_name |-> PyStr(Chars(MaxNameLen, 2))],
       [first_name |-> PyStr(Chars(MinNameLen, 1)),
        last_name |-> PyStr(Chars(MaxNameLen, 2))] >>

QueryRestaurants ==
    << [name |-> PyStr(Chars(MinNameLen, 3))],
       [name |-> PyStr(Chars(MinNameLen + 1, 3))],
       [name |-> PyStr(Chars(MaxNameLen, 3))] >>

(* The Reviews tried: either Customer, with the first Restaurant rated 1   *)
(* or 2, the second rated 2 and the third rated 5.                         *)
ReviewInputs ==
    { [customer |-> CustomerObj(c), restaurant |-> RestaurantObj(p[1]),
       rating |-> PyInt(p[2])] :
        c \in 1..Len(QueryCustomers),
        p \in { <<1, MinRating>>, <<1, NegativeRating>>, <<2, NegativeRating>>,
                <<3, MaxRating>> } }

InitQuery ==
    /\ Customer_all = QueryCustomers
    /\ Restaurant_all = QueryRestaurants
    /\ \E n \in 0..MaxReviews : Review_all \in [1..n -> ReviewInputs]
    /\ last = [op |-> "none", args |-> <<>>, calls |-> <<>>,
               raised |-> FALSE, ret |-> <<>>]

Customers == { CustomerObj(i) : i \in 1..Len(Customer_all) }
Restaurants == { RestaurantObj(i) : i \in 1..Len(Restaurant_all) }

NextQuery ==
    \/ \E c \in Customers : CallRestaurants(c)
    \/ \E c \in Customers : CallNumNegativeReviews(c)
    \/ \E c \in Customers, r \in Restaurants : CallHasReviewedRestaurant(c, r)
    \/ \E r \in Restaurants : CallCustomers(r)
    \/ \E r \in Restaurants : CallAverageStarRating(r)
    \/ CallTopTwoRestaurants

SpecQuery == InitQuery /\ [][NextQuery]_vars

NextSetters ==
    \/ \E i \in 1..Len(Review_all), v \in RatingInputs : SetRating(i, v)
    \/ \E i \in 1..Len(Review_all), v \in CustomerInputs : SetCustomer(i, v)
    \/ \E i \in 1..Len(Review_all), v \in RestaurantInputs : SetRestaurant(i, v)

SpecSetters == InitQuery /\ [][NextSetters]_vars

-----------------------------------------------------------------------------
(* What the claims call valid *)

ValidName(v) ==
    v.type = "str" /\ Len(v.val) >= MinNameLen /\ Len(v.val) <= MaxNameLen

ValidRating(v) ==
    v.type = "int" /\ v.val[1] >= MinRating /\ v.val[1] <= MaxRating

RegisteredCustomer(v) == v.type = "Customer" /\ v.val[1] \in 1..Len(Customer_all)

RegisteredRestaurant(v) ==
    v.type = "Restaurant" /\ v.val[1] \in 1..Len(Restaurant_all)

ValidInput(attr, v) ==
    CASE attr = "Review.rating" -> ValidRating(v)
      [] attr = "Review.customer" -> v.type = "Customer"
      [] attr = "Review.restaurant" -> v.type = "Restaurant"
      [] OTHER -> ValidName(v)

SetterOps ==
    { "Customer.first_name", "Customer.last_name", "Restaurant.name",
      "Review.rating", "Review.customer", "Review.restaurant" }

(* The indices of the Reviews of a Customer, of a Restaurant, of a pair *)
ReviewsBy(c) == { i \in 1..Len(Review_all) : Review_all[i].customer = c }
ReviewsOf(r) == { i \in 1..Len(Review_all) : Review_all[i].restaurant = r }

RECURSIVE RatingTotal(_)
RatingTotal(S) ==
    IF S = {} THEN 0
    ELSE LET i == CHOOSE j \in S : TRUE
         IN  Review_all[i].rating.val[1] + RatingTotal(S \ {i})

Abs(x) == IF x < 0 THEN -x ELSE x

(* r comes before s when the Restaurants are sorted by descending average, *)
(* equal averages in registry order                                        *)
SortsBefore(r, s) ==
    \/ Restaurant_average_star_rating(r) > Restaurant_average_star_rating(s)
    \/ /\ Restaurant_average_star_rating(r) = Restaurant_average_star_rating(s)
       /\ r.val[1] < s.val[1]

-----------------------------------------------------------------------------
(* C1: constructing a Review from a Customer of the registry, a Restaurant *)
(* of the registry and a rating in 1..5 does not raise, and the Review     *)
(* registry afterwards is the registry before with one Review appended     *)
(* that holds the three arguments.                                         *)
C1_ReviewConstructionSucceeds ==
    [][ ( /\ last'.op = "Review.__init__"
          /\ RegisteredCustomer(last'.args[1])
          /\ RegisteredRestaurant(last'.args[2])
          /\ ValidRating(last'.args[3]) )
        => ( /\ ~last'.raised
             /\ Review_all' = Append(Review_all,
                                     [customer |-> last'.args[1],
                                      restaurant |-> last'.args[2],
                                      rating |-> last'.args[3]]) ) ]_vars

(* C2: constructing a Customer or a Restaurant with a name that is no      *)
(* string of length 1 to 25 fails and adds nothing to the registry.        *)
C2_InvalidNameRejected ==
    [][ /\ ( /\ last'.op = "Customer.__init__"
             /\ ~(ValidName(last'.args[1]) /\ ValidName(last'.args[2])) )
           => (last'.raised /\ Customer_all' = Customer_all)
        /\ ( /\ last'.op = "Restaurant.__init__"
             /\ ~ValidName(last'.args[1]) )
           => (last'.raised /\ Restaurant_all' = Restaurant_all) ]_vars

(* C3: constructing a Customer with two valid names, or a Restaurant with  *)
(* a valid name, does not raise, and the registry afterwards is the        *)
(* registry before with one instance appended whose names read back equal  *)
(* to the inputs.                                                          *)
C3_ValidNameConstructs ==
    [][ /\ ( /\ last'.op = "Customer.__init__"
             /\ ValidName(last'.args[1]) /\ ValidName(last'.args[2]) )
           => ( /\ ~last'.raised
                /\ Customer_all' = Append(Customer_all,
                                          [first_name |-> last'.args[1],
                                           last_name |-> last'.args[2]]) )
        /\ ( /\ last'.op = "Restaurant.__init__"
             /\ ValidName(last'.args[1]) )
           => ( /\ ~last'.raised
                /\ Restaurant_all' = Append(Restaurant_all,
                                            [name |-> last'.args[1]]) ) ]_vars

(* A second Restaurant was just constructed with a valid name behind a     *)
(* first one, and the registry holds a Customer with both names set.       *)
C3_Witness ==
    /\ last.op = "Restaurant.__init__"
    /\ ValidName(last.args[1])
    /\ Len(Restaurant_all) = 2
    /\ Restaurant_all[2].name = last.args[1]
    /\ \E i \in 1..Len(Customer_all) :
          /\ ValidName(Customer_all[i].first_name)
          /\ ValidName(Customer_all[i].last_name)
          /\ Customer_all[i].first_name # Customer_all[i].last_name

(* C4: every Review of the registry has a rating that is an int in 1..5,   *)
(* a customer that is a Customer of the registry and a restaurant that is  *)
(* a Restaurant of the registry; a construction with an invalid argument   *)
(* leaves no entry.                                                        *)
C4_ReviewRegistryValid ==
    /\ \A i \in 1..Len(Review_all) :
          /\ ValidRating(Review_all[i].rating)
          /\ RegisteredCustomer(Review_all[i].customer)
          /\ RegisteredRestaurant(Review_all[i].restaurant)
    /\ ( /\ last.op = "Review.__init__"
         /\ ~( /\ RegisteredCustomer(last.args[1])
               /\ RegisteredRestaurant(last.args[2])
               /\ ValidRating(last.args[3]) ) )
       => \A i \in 1..Len(Review_all) :
             Review_all[i] # [customer |-> last.args[1],
                              restaurant |-> last.args[2],
                              rating |-> last.args[3]]

(* A Review was just constructed from a Customer and a Restaurant of the   *)
(* registry with a rating outside 1..5, and the registry holds no Review.  *)
C4_Witness ==
    /\ last.op = "Review.__init__"
    /\ RegisteredCustomer(last.args[1])
    /\ RegisteredRestaurant(last.args[2])
    /\ last.args[3].type = "int" /\ ~ValidRating(last.args[3])
    /\ last.raised
    /\ Review_all = <<>>

(* C5: a rating that is set is the same after every step, whatever is      *)
(* assigned to it.                                                         *)
C5_RatingImmutable ==
    [][ \A i \in 1..Len(Review_all) :
          Review_all[i].rating # Unset
          => ( /\ i <= Len(Review_all')
               /\ Review_all'[i].rating = Review_all[i].rating ) ]_vars

(* A rating in 1..5 other than the Review's own was just assigned to the   *)
(* rating of a Review, without raising.                                    *)
C5_Witness ==
    /\ last.op = "Review.rating"
    /\ ValidRating(last.args[2])
    /\ ~last.raised
    /\ Review_all[last.args[1].val[1]].rating # last.args[2]
    /\ ValidRating(Review_all[last.args[1].val[1]].rating)

(* C6: top_two_restaurants() returns the first two (or all, when fewer     *)
(* than two exist) of the Restaurants sorted by descending average, equal  *)
(* averages in registry order; no Restaurant left out has a higher average *)
(* than one returned; the registry is as it was.                           *)
C6_TopTwoSortedStable ==
    last.op = "Restaurant.top_two_restaurants"
    => /\ Len(last.ret) = (IF Len(Restaurant_all) < 2 THEN Len(Restaurant_all)
                                                       ELSE 2)
       /\ \A k \in 1..Len(last.ret) :
             /\ last.ret[k] \in Restaurants
             /\ Cardinality({ r \in Restaurants : SortsBefore(r, last.ret[k]) })
                  = k - 1
             /\ \A r \in Restaurants \ ToSet(last.ret) :
                   Restaurant_average_star_rating(r)
                     <= Restaurant_average_star_rating(last.ret[k])
       /\ Restaurant_all = QueryRestaurants

(* The third Restaurant has the highest average and the first two share a  *)
(* lower one that is not 0.0: the result is the third, then the first.     *)
C6_Witness ==
    /\ last.op = "Restaurant.top_two_restaurants"
    /\ last.ret = << RestaurantObj(3), RestaurantObj(1) >>
    /\ Restaurant_average_star_rating(RestaurantObj(1))
         = Restaurant_average_star_rating(RestaurantObj(2))
    /\ Restaurant_average_star_rating(RestaurantObj(1)) > 0

(* C7: average_star_rating() is 0.0 for a Restaurant no Review references, *)
(* and otherwise a tenth nearest to the sum of the ratings of exactly the  *)
(* Reviews that reference it divided by their number.                      *)
C7_AverageIsRoundedMean ==
    last.op = "Restaurant.average_star_rating"
    => LET S == ReviewsOf(last.args[1])
           n == Cardinality(S)
       IN  IF n = 0 THEN last.ret = <<0>>
           ELSE 2 * Abs(10 * RatingTotal(S) - last.ret[1] * n) <= n

(* The average of a Restaurant with three Reviews whose ratings sum to 4   *)
(* was just read as 1.3.                                                   *)
C7_Witness ==
    /\ last.op = "Restaurant.average_star_rating"
    /\ Cardinality(ReviewsOf(last.args[1])) = 3
    /\ RatingTotal(ReviewsOf(last.args[1])) = 4
    /\ last.ret = <<13>>

(* C8: c.has_reviewed_restaurant(r) is true exactly when some Review of    *)
(* the registry has customer c and restaurant r.                           *)
C8_HasReviewedIffReviewExists ==
    last.op = "Customer.has_reviewed_restaurant"
    => ( last.ret = <<TRUE>>
         <=> \E i \in 1..Len(Review_all) :
                /\ Review_all[i].customer = last.args[1]
                /\ Review_all[i].restaurant = last.args[2] )

(* The answer was just false for a Restaurant that another Customer        *)
(* reviewed, for a Customer who reviewed another Restaurant.               *)
C8_Witness ==
    /\ last.op = "Customer.has_reviewed_restaurant"
    /\ last.ret = <<FALSE>>
    /\ ReviewsBy(last.args[1]) # {}
    /\ ReviewsOf(last.args[2]) # {}

(* C9: c.restaurants() holds each Restaurant of a Review of c once and no  *)
(* other, and r.customers() each Customer of a Review of r once and no     *)
(* other.                                                                  *)
C9_DistinctRelated ==
    /\ last.op = "Customer.restaurants"
       => /\ \A j, k \in 1..Len(last.ret) : last.ret[j] = last.ret[k] => j = k
          /\ ToSet(last.ret)
               = { Review_all[i].restaurant : i \in ReviewsBy(last.args[1]) }
    /\ last.op = "Restaurant.customers"
       => /\ \A j, k \in 1..Len(last.ret) : last.ret[j] = last.ret[k] => j = k
          /\ ToSet(last.ret)
               = { Review_all[i].customer : i \in ReviewsOf(last.args[1]) }

(* restaurants() was just read for a Customer with three Reviews, two of   *)
(* them of the same Restaurant: it holds two Restaurants.                  *)
C9_Witness ==
    /\ last.op = "Customer.restaurants"
    /\ Cardinality(ReviewsBy(last.args[1])) = 3
    /\ Len(last.ret) = 2

(* C10: a setter called with invalid input does not raise, and called on   *)
(* its own it leaves every registry as it was.                             *)
C10_InvalidInputSilentlyIgnored ==
    [][ \A k \in 1..Len(last'.calls) :
          ~ValidInput(last'.calls[k].attr, last'.calls[k].val)
          => ( /\ ~last'.calls[k].raised
               /\ last'.op \in SetterOps
                  => UNCHANGED <<Customer_all, Restaurant_all, Review_all>> )
      ]_vars

====
